---- MODULE Spec2Model ----
(***************************************************************************)
(* Confusion-matrix evaluation of deeplab/src/models/eval.py:              *)
(* generate_matrix, the sample loop of eval_mIOU and the metric derivation *)
(* that follows it.                                                        *)
(*                                                                         *)
(* Label masks are kept in row-major order together with their shape.      *)
(* Floating point ratios are kept as exact fractions, plus the two IEEE    *)
(* outcomes of a division by zero (nan for 0/0, inf for x/0).              *)
(***************************************************************************)
EXTENDS Integers, Sequences, FiniteSets, TLC

VARIABLES
    pc,                \* position: "main", then in eval_mIOU "call", "loop", "derive", "done", "error"
    class_names,       \* argument class_names (a list of names)
    model_format,      \* argument model_format
    model_input_shape, \* argument model_input_shape <<height, width>>
    n,                 \* loop index of enumerate(eval_generator)
    confusion_matrix,  \* the running confusion matrix
    report,            \* the derived metrics, once computed
    error,             \* the exception that ended the run, "" when none
    valid_seen,        \* history: ground-truth pixels in [0, num_classes) accumulated so far
    all_match,         \* history: pred = gt at every pixel of every accumulated sample
    shape_mismatch,    \* history: y_true and y_pred of some sample came in different shapes
    call,              \* a call of generate_matrix, or of the accumulation, on its own
    result             \* what that call gave

vars == <<pc, class_names, model_format, model_input_shape, n, confusion_matrix,
          report, error, valid_seen, all_match, shape_mismatch, call, result>>

----------------------------------------------------------------------------
(* Bounds of the model *)

MaxClasses == 2

\* pixels of the whole dataset: the loop runs while the samples read so far
\* and the next one hold no more than this
MaxPixels == 4

\* label value used for unlabeled pixels in the label PNG files
IgnoreLabel == 255

\* names a classes file can list
ClassNames == <<"c0", "c1", "c2", "c3", "c4">>

\* class name lists of up to MaxClasses names, repeated names included; a name
\* that has not occurred yet is the next one of ClassNames
ClassNameLists ==
    UNION {{s \in [1 .. k -> {ClassNames[i] : i \in 1 .. MaxClasses}] :
               \A i \in 1 .. k :
                   \/ \E j \in 1 .. (i - 1) : s[j] = s[i]
                   \/ s[i] = ClassNames[Cardinality({s[j] : j \in 1 .. (i - 1)}) + 1]}
           : k \in 0 .. MaxClasses}

\* values of the argument model_format the runs are started with: two that
\* the dispatch knows and one that it does not
Formats == {"H5", "ONNX", "MNN"}

\* values a ground-truth pixel can hold: class indices and the ignore label
GtValues == (0 .. (MaxClasses - 1)) \cup {IgnoreLabel}

\* values a predicted pixel can hold: the argmax over the model's outputs,
\* of which there may be one more than there are class names
PredValues == 0 .. MaxClasses

\* shapes <<height, width>> of the masks the generator and the model hand back
Shapes == {<<1, 1>>, <<1, 2>>, <<2, 1>>}

\* values of the argument model_input_shape
InputShapes == {<<1, 1>>, <<1, 2>>}

Size(shape) == shape[1] * shape[2]

Masks(shape, values) == [1 .. Size(shape) -> values]

----------------------------------------------------------------------------
(* Floating point values as exact fractions *)

RECURSIVE GCD(_, _)
GCD(a, b) == IF b = 0 THEN a ELSE GCD(b, a % b)

NaN == [k |-> "nan"]

Inf == [k |-> "inf"]

Rat(a, b) == LET g == GCD(a, b) IN [k |-> "num", n |-> a \div g, d |-> b \div g]

Zero == Rat(0, 1)

One == Rat(1, 1)

IsNaN(x) == x.k = "nan"

\* numpy true division of two non-negative float64 values
Div(a, b) ==
    IF b = 0
    THEN (IF a = 0 THEN NaN ELSE Inf)
    ELSE Rat(a, b)

Add(x, y) ==
    IF x.k = "nan" \/ y.k = "nan" THEN NaN
    ELSE IF x.k = "inf" \/ y.k = "inf" THEN Inf
    ELSE Rat(x.n * y.d + y.n * x.d, x.d * y.d)

Mul(x, y) ==
    IF x.k = "nan" \/ y.k = "nan" THEN NaN
    ELSE IF x.k = "inf" \/ y.k = "inf"
         THEN (IF x = Zero \/ y = Zero THEN NaN ELSE Inf)
    ELSE Rat(x.n * y.n, x.d * y.d)

\* x <= y for non-negative values
Leq(x, y) ==
    /\ x.k # "nan"
    /\ y.k # "nan"
    /\ \/ y.k = "inf"
       \/ x.k = "num" /\ y.k = "num" /\ x.n * y.d <= y.n * x.d

\* a[np.isnan(a)] = 0
NanToZero(x) == IF IsNaN(x) THEN Zero ELSE x

RECURSIVE SumSeq(_)
SumSeq(s) == IF s = <<>> THEN Zero ELSE Add(Head(s), SumSeq(Tail(s)))

\* np.nanmean: mean of the values that are not nan, nan when there are none
nanmean(s) ==
    LET kept == SelectSeq(s, LAMBDA x : ~IsNaN(x))
        total == SumSeq(kept)
    IN  IF kept = <<>> THEN NaN
        ELSE IF total.k = "inf" THEN Inf
        ELSE Rat(total.n, total.d * Len(kept))

----------------------------------------------------------------------------
(* Matrices *)

Classes(num_classes) == 0 .. (num_classes - 1)

\* np.zeros((num_classes, num_classes))
ZeroMatrix(num_classes) ==
    [i \in Classes(num_classes) |-> [j \in Classes(num_classes) |-> 0]]

\* MatAdd that keeps the contribution alone
MatAddOverwrite(a, b) == b

\* confusion_matrix += contribution
MatAdd(a, b) == [i \in DOMAIN a |-> [j \in DOMAIN a[i] |-> a[i][j] + b[i][j]]]

RECURSIVE SumOver(_, _)
SumOver(f, S) ==
    IF S = {} THEN 0
    ELSE LET x == CHOOSE y \in S : TRUE IN f[x] + SumOver(f, S \ {x})

\* np.sum(confusion_matrix, axis=1)[c]
RowSum(m, c) == SumOver(m[c], DOMAIN m[c])

\* np.sum(confusion_matrix, axis=0)[c]
ColSum(m, c) == SumOver([i \in DOMAIN m |-> m[i][c]], DOMAIN m)

\* confusion_matrix.sum()
MatSum(m) == SumOver([i \in DOMAIN m |-> RowSum(m, i)], DOMAIN m)

\* np.diag(confusion_matrix).sum()
Trace(m) == SumOver([i \in DOMAIN m |-> m[i][i]], DOMAIN m)

----------------------------------------------------------------------------
(* generate_matrix *)

Mask(shape, data) == [shape |-> shape, data |-> data]

Ok(v) == [ok |-> TRUE, value |-> v]

Raise(e) == [ok |-> FALSE, error |-> e]

\* valid = (gt_mask >= 0) & (gt_mask < num_classes), as the set of selected positions
Valid(gt_mask, num_classes) ==
    {i \in DOMAIN gt_mask.data : gt_mask.data[i] >= 0 /\ gt_mask.data[i] < num_classes}

\* Label with the prediction clamped to the last class
LabelClamped(gt_mask, pre_mask, num_classes) ==
    [i \in Valid(gt_mask, num_classes) |->
        num_classes * gt_mask.data[i]
            + (IF pre_mask.data[i] < num_classes
               THEN pre_mask.data[i]
               ELSE num_classes - 1)]

\* Label with the mask dropped: every pixel is kept and a ground-truth label
\* above the last class is taken as the last class
LabelUnmasked(gt_mask, pre_mask, num_classes) ==
    [i \in DOMAIN gt_mask.data |->
        num_classes * (IF gt_mask.data[i] < num_classes
                       THEN gt_mask.data[i]
                       ELSE num_classes - 1)
            + pre_mask.data[i]]

\* label = num_classes * gt_mask[valid] + pre_mask[valid]
Label(gt_mask, pre_mask, num_classes) ==
    [i \in Valid(gt_mask, num_classes) |->
        num_classes * gt_mask.data[i] + pre_mask.data[i]]

SetMax(S) == CHOOSE x \in S : \A y \in S : y <= x

\* length of np.bincount(label, minlength): at least minlength, and long
\* enough to hold the largest label
BincountLen(label, minlength) ==
    LET vals == {label[i] : i \in DOMAIN label}
    IN  IF vals = {} \/ SetMax(vals) + 1 <= minlength
        THEN minlength
        ELSE SetMax(vals) + 1

\* np.bincount(label, minlength)[k]
Bincount(label, minlength) ==
    [k \in 0 .. (BincountLen(label, minlength) - 1) |->
        Cardinality({i \in DOMAIN label : label[i] = k})]

\* Reshape in column-major order
ReshapeColumnMajor(count, num_classes) ==
    [i \in Classes(num_classes) |->
        [j \in Classes(num_classes) |-> count[j * num_classes + i]]]

\* count.reshape(num_classes, num_classes)
Reshape(count, num_classes) ==
    [i \in Classes(num_classes) |->
        [j \in Classes(num_classes) |-> count[i * num_classes + j]]]

generate_matrix(gt_mask, pre_mask, num_classes) ==
    IF gt_mask.shape # pre_mask.shape
    THEN Raise("IndexError")     \* boolean index did not match indexed array
    ELSE LET label == Label(gt_mask, pre_mask, num_classes)
         IN  IF \E i \in DOMAIN label : label[i] < 0
             THEN Raise("ValueError")     \* bincount: negative value in the input
             ELSE LET count == Bincount(label, num_classes * num_classes)
                  IN  IF num_classes < 0
                         \/ Cardinality(DOMAIN count) # num_classes * num_classes
                      THEN Raise("ValueError")     \* cannot reshape array
                      ELSE Ok(Reshape(count, num_classes))

----------------------------------------------------------------------------
(* The metric derivation at the end of eval_mIOU *)

\* a numpy array indexed 0 .. num_classes - 1, as a list
AsList(a) == [i \in 1 .. Cardinality(DOMAIN a) |-> a[i - 1]]

Range(s) == {s[i] : i \in DOMAIN s}

\* x < y, as Python compares floats
Less(x, y) ==
    /\ x.k = "num"
    /\ \/ y.k = "inf"
       \/ y.k = "num" /\ x.n * y.d < y.n * x.d

PixelAcc(m) == Div(Trace(m), MatSum(m))

ClassAcc(m) == [c \in DOMAIN m |-> NanToZero(Div(m[c][c], RowSum(m, c)))]

mClassAcc(m) == nanmean(AsList(ClassAcc(m)))

I(m) == [c \in DOMAIN m |-> m[c][c]]

\* U without the overlap taken off
UWithOverlap(m) == [c \in DOMAIN m |-> ColSum(m, c) + RowSum(m, c)]

U(m) == [c \in DOMAIN m |-> ColSum(m, c) + RowSum(m, c) - I(m)[c]]

IoU(m) == [c \in DOMAIN m |-> NanToZero(Div(I(m)[c], U(m)[c]))]

Freq(m) == [c \in DOMAIN m |-> NanToZero(Div(RowSum(m, c), MatSum(m)))]

\* (Freq[Freq > 0] * IoU[Freq > 0]).sum()
FWIoU(m) ==
    LET sel == {c \in DOMAIN m : Less(Zero, Freq(m)[c])}
        idx == SelectSeq(AsList([c \in DOMAIN m |-> c]), LAMBDA c : c \in sel)
    IN  SumSeq([k \in DOMAIN idx |-> Mul(Freq(m)[idx[k]], IoU(m)[idx[k]])])

\* DiceCoef over the union alone
DiceCoefOverUnion(m) == [c \in DOMAIN m |-> NanToZero(Div(2 * I(m)[c], U(m)[c]))]

DiceCoef(m) == [c \in DOMAIN m |-> NanToZero(Div(2 * I(m)[c], U(m)[c] + I(m)[c]))]

\* keys of the dict filled by d[names[i]] = ... for i in order: each name once,
\* in the order of its first insertion
RECURSIVE DictKeys(_)
DictKeys(names) ==
    IF names = <<>> THEN <<>>
    ELSE LET before == DictKeys(SubSeq(names, 1, Len(names) - 1))
             last == names[Len(names)]
         IN  IF last \in Range(before) THEN before ELSE Append(before, last)

\* value the dict holds for key: the one assigned last
DictGet(names, values, key) ==
    values[SetMax({i \in DOMAIN names : names[i] = key})]

\* d.items() of the dict filled from zip(names, values)
DictItems(names, values) ==
    LET keys == DictKeys(names)
    IN  [k \in DOMAIN keys |-> <<keys[k], DictGet(names, values, keys[k])>>]

\* SortedDescending as an ascending sort read backwards: items of equal value
\* come out in the reverse of their order
RECURSIVE SortedReversed(_)
SortedReversed(items) ==
    IF items = <<>> THEN <<>>
    ELSE LET before == SortedReversed(SubSeq(items, 1, Len(items) - 1))
             x == items[Len(items)]
             notlarger == {p \in DOMAIN before : ~Less(x[2], before[p][2])}
             at == IF notlarger = {} THEN Len(before) + 1
                   ELSE CHOOSE p \in notlarger : \A q \in notlarger : p <= q
         IN  SubSeq(before, 1, at - 1) \o <<x>> \o SubSeq(before, at, Len(before))

\* sorted(items, key=operator.itemgetter(1), reverse=True): a stable sort
RECURSIVE SortedDescending(_)
SortedDescending(items) ==
    IF items = <<>> THEN <<>>
    ELSE LET before == SortedDescending(SubSeq(items, 1, Len(items) - 1))
             x == items[Len(items)]
             smaller == {p \in DOMAIN before : Less(before[p][2], x[2])}
             at == IF smaller = {} THEN Len(before) + 1
                   ELSE CHOOSE p \in smaller : \A q \in smaller : p <= q
         IN  SubSeq(before, 1, at - 1) \o <<x>> \o SubSeq(before, at, Len(before))

\* the OrderedDict IOUs after sorting
IOUs(m, names) == SortedDescending(DictItems(names, AsList(IoU(m))))

\* np.nanmean(list(IOUs.values()))
mIoU(m, names) ==
    LET items == IOUs(m, names)
    IN  nanmean([k \in DOMAIN items |-> items[k][2]])

\* everything eval_mIOU derives from the accumulated matrix
Derived(m, names) ==
    [PixelAcc   |-> PixelAcc(m),
     ClassAcc   |-> ClassAcc(m),
     mClassAcc  |-> mClassAcc(m),
     IoU        |-> IoU(m),
     Freq       |-> Freq(m),
     FWIoU      |-> FWIoU(m),
     DiceCoef   |-> DiceCoef(m),
     IOUs       |-> IOUs(m, names),
     CLASS_ACCs |-> DictItems(names, AsList(ClassAcc(m))),
     DICEs      |-> DictItems(names, AsList(DiceCoef(m))),
     FREQs      |-> DictItems(names, AsList(Freq(m))),
     mIoU       |-> mIoU(m, names)]

----------------------------------------------------------------------------
(* eval_mIOU *)

SupportedFormats == {"TFLITE", "PB", "ONNX", "H5"}

NoReport == [PixelAcc |-> "none"]

NoCall == [op |-> "none"]

NoResult == [ok |-> "none"]

num_classes == Len(class_names)

Init ==
    /\ pc = "call"
    /\ class_names \in ClassNameLists
    /\ model_format \in Formats
    /\ model_input_shape \in InputShapes
    /\ n = 0
    /\ confusion_matrix = <<>>
    /\ report = NoReport
    /\ error = ""
    /\ valid_seen = 0
    /\ all_match = TRUE
    /\ shape_mismatch = FALSE
    /\ call = NoCall
    /\ result = NoResult

\* entry of eval_mIOU up to the loop: the generator and the zero matrix
Setup ==
    /\ pc = "call"
    /\ pc' = "loop"
    /\ confusion_matrix' = ZeroMatrix(num_classes)
    /\ UNCHANGED <<class_names, model_format, model_input_shape, n, report, error,
                   valid_seen, all_match, shape_mismatch, call, result>>

\* the pairs <<shape of y_pred, shape of y_true>> that reshape(shape) accepts:
\* those with as many pixels as shape has
Reshapable(shape) ==
    {s \in Shapes \X Shapes : Size(s[1]) = Size(shape) /\ Size(s[2]) = Size(shape)}

Fail(e) ==
    /\ pc' = "error"
    /\ error' = e
    /\ UNCHANGED <<class_names, model_format, model_input_shape, n, confusion_matrix,
                   report, valid_seen, all_match>>

\* the else branch of the dispatch on model_format
InvalidFormat ==
    /\ model_format \notin SupportedFormats
    /\ Fail("invalid model format")
    /\ UNCHANGED shape_mismatch

\* y_pred.reshape(model_input_shape) or y_true.reshape(model_input_shape) of a
\* mask that has another number of pixels
ReshapeFails ==
    /\ model_format \in SupportedFormats
    /\ \E differ \in {s[1] # s[2] : s \in (Shapes \X Shapes) \ Reshapable(model_input_shape)} :
          shape_mismatch' = (shape_mismatch \/ differ)
    /\ Fail("cannot reshape array")

\* Accumulate that adds the contribution of the sample twice
AccumulateTwice ==
    /\ model_format \in SupportedFormats
    /\ \E differ \in {s[1] # s[2] : s \in Reshapable(model_input_shape)} :
          shape_mismatch' = (shape_mismatch \/ differ)
    /\ \E y_true \in Masks(model_input_shape, GtValues),
          y_pred \in Masks(model_input_shape, PredValues) :
          LET gt_mask == Mask(model_input_shape, y_true)
              pred_mask == Mask(model_input_shape, y_pred)
              contribution == generate_matrix(gt_mask, pred_mask, num_classes)
          IN  IF contribution.ok
              THEN /\ confusion_matrix' =
                          MatAdd(MatAdd(confusion_matrix, contribution.value),
                                 contribution.value)
                   /\ n' = n + 1
                   /\ valid_seen' = valid_seen + Cardinality(
                          {i \in DOMAIN y_true : y_true[i] \in Classes(num_classes)})
                   /\ all_match' = (all_match /\ y_true = y_pred)
                   /\ UNCHANGED <<pc, class_names, model_format, model_input_shape,
                                  report, error>>
              ELSE Fail(contribution.error)

\* the update of the confusion matrix with one sample
Accumulate ==
    /\ model_format \in SupportedFormats
    /\ \E differ \in {s[1] # s[2] : s \in Reshapable(model_input_shape)} :
          shape_mismatch' = (shape_mismatch \/ differ)
    /\ \E y_true \in Masks(model_input_shape, GtValues),
          y_pred \in Masks(model_input_shape, PredValues) :
          LET gt_mask == Mask(model_input_shape, y_true)
              pred_mask == Mask(model_input_shape, y_pred)
              contribution == generate_matrix(gt_mask, pred_mask, num_classes)
          IN  IF contribution.ok
              THEN /\ confusion_matrix' = MatAdd(confusion_matrix, contribution.value)
                   /\ n' = n + 1
                   /\ valid_seen' = valid_seen + Cardinality(
                          {i \in DOMAIN y_true : y_true[i] \in Classes(num_classes)})
                   /\ all_match' = (all_match /\ y_true = y_pred)
                   /\ UNCHANGED <<pc, class_names, model_format, model_input_shape,
                                  report, error>>
              ELSE Fail(contribution.error)

\* one iteration of the loop over eval_generator
Iterate ==
    /\ pc = "loop"
    /\ (n + 1) * Size(model_input_shape) <= MaxPixels
    /\ (InvalidFormat \/ ReshapeFails \/ Accumulate)
    /\ UNCHANGED <<call, result>>

\* eval_generator is exhausted
LoopEnd ==
    /\ pc = "loop"
    /\ pc' = "derive"
    /\ UNCHANGED <<class_names, model_format, model_input_shape, n, confusion_matrix,
                   report, error, valid_seen, all_match, shape_mismatch, call, result>>

\* Derive that clears the matrix once the metrics are reported
DeriveAndReset ==
    /\ pc = "derive"
    /\ pc' = "done"
    /\ report' = Derived(confusion_matrix, class_names)
    /\ confusion_matrix' = ZeroMatrix(num_classes)
    /\ UNCHANGED <<class_names, model_format, model_input_shape, n,
                   error, valid_seen, all_match, shape_mismatch, call, result>>

\* the metrics are computed, printed and mIoU is returned
Derive ==
    /\ pc = "derive"
    /\ pc' = "done"
    /\ report' = Derived(confusion_matrix, class_names)
    /\ UNCHANGED <<class_names, model_format, model_input_shape, n, confusion_matrix,
                   error, valid_seen, all_match, shape_mismatch, call, result>>

Next == Setup \/ Iterate \/ LoopEnd \/ Derive

Spec == Init /\ [][Next]_vars

----------------------------------------------------------------------------
(* generate_matrix called on its own *)

\* the evaluation run is not started
Idle ==
    /\ pc = "idle"
    /\ class_names = <<>>
    /\ model_format = "H5"
    /\ model_input_shape = <<1, 1>>
    /\ n = 0
    /\ confusion_matrix = <<>>
    /\ report = NoReport
    /\ error = ""
    /\ valid_seen = 0
    /\ all_match = TRUE
    /\ shape_mismatch = FALSE

eval_vars == <<pc, class_names, model_format, model_input_shape, n, confusion_matrix,
               report, error, valid_seen, all_match, shape_mismatch>>

\* shapes of the masks generate_matrix is called with
GenShapes == Shapes \cup {<<1, 3>>}

\* values of its argument num_classes
GenClassCounts == -1 .. MaxClasses

GenInit ==
    /\ Idle
    /\ \E gt_shape \in GenShapes, pre_shape \in GenShapes :
       \E gt \in Masks(gt_shape, GtValues), pre \in Masks(pre_shape, PredValues) :
       \E k \in GenClassCounts :
          call = [op |-> "generate_matrix", gt_mask |-> Mask(gt_shape, gt),
                  pre_mask |-> Mask(pre_shape, pre), num_classes |-> k]
    /\ result = NoResult

GenCall ==
    /\ call.op = "generate_matrix"
    /\ result = NoResult
    /\ result' = generate_matrix(call.gt_mask, call.pre_mask, call.num_classes)
    /\ UNCHANGED <<eval_vars, call>>

GenNext == GenCall

SpecGen == GenInit /\ [][GenNext]_vars

\* for each valid pixel: matrix[gt][pred] += 1
TwoIndex(gt_mask, pre_mask, k) ==
    [i \in Classes(k) |->
        [j \in Classes(k) |->
            Cardinality({p \in DOMAIN gt_mask.data :
                            gt_mask.data[p] = i /\ pre_mask.data[p] = j})]]

\* every prediction at a valid pixel is a class index
PredictionsInRange(gt_mask, pre_mask, k) ==
    \A p \in Valid(gt_mask, k) : pre_mask.data[p] \in Classes(k)

\* C10: for masks of one shape whose predictions at the valid pixels lie in
\* [0, num_classes), generate_matrix returns the matrix of the two-index
\* accumulation: cell (i, j) is the number of valid pixels with ground truth i
\* and prediction j.
C10_HistogramIsTwoIndexCount ==
    (/\ call.op = "generate_matrix"
     /\ result # NoResult
     /\ call.num_classes >= 0
     /\ call.gt_mask.shape = call.pre_mask.shape
     /\ PredictionsInRange(call.gt_mask, call.pre_mask, call.num_classes)) =>
        result = Ok(TwoIndex(call.gt_mask, call.pre_mask, call.num_classes))

\* a matrix with an off-diagonal count of two and an ignored pixel
C10_Witness ==
    /\ call.op = "generate_matrix"
    /\ result # NoResult
    /\ call.gt_mask.shape = call.pre_mask.shape
    /\ PredictionsInRange(call.gt_mask, call.pre_mask, call.num_classes)
    /\ result.ok = TRUE
    /\ call.num_classes = 2
    /\ result.value[0][1] = 2
    /\ Cardinality(Valid(call.gt_mask, 2)) = 2
    /\ Size(call.gt_mask.shape) = 3

\* the index of pixel p in the histogram: num_classes * gt + pred
LinearIndex(gt_mask, pre_mask, k, p) == k * gt_mask.data[p] + pre_mask.data[p]

\* the valid pixels whose prediction is no class index
OutOfRange(gt_mask, pre_mask, k) ==
    {p \in Valid(gt_mask, k) : pre_mask.data[p] \notin Classes(k)}

\* the valid pixels whose index is past the last cell
Overflowing(gt_mask, pre_mask, k) ==
    {p \in Valid(gt_mask, k) : LinearIndex(gt_mask, pre_mask, k, p) > k * k - 1}

\* cell (i, j) counts the valid pixels whose index is i * num_classes + j
CountByIndex(gt_mask, pre_mask, k) ==
    [i \in Classes(k) |->
        [j \in Classes(k) |->
            Cardinality({p \in Valid(gt_mask, k) :
                            LinearIndex(gt_mask, pre_mask, k, p) = i * k + j})]]

\* C11: when the index of some valid pixel is past num_classes^2 - 1,
\* generate_matrix raises nothing and returns the num_classes x num_classes
\* matrix in which that pixel is in no cell and every other valid pixel is
\* counted.
C11_OverflowingIndexIsDropped ==
    (/\ call.op = "generate_matrix"
     /\ result # NoResult
     /\ call.num_classes > 0
     /\ call.gt_mask.shape = call.pre_mask.shape
     /\ Overflowing(call.gt_mask, call.pre_mask, call.num_classes) # {}) =>
        result = Ok(CountByIndex(call.gt_mask, call.pre_mask, call.num_classes))

----------------------------------------------------------------------------
(* The accumulation of a dataset, in the order given, in every other order
   and as one sample that holds the pixels of all *)

\* samples of a dataset given in full
MaxOrderSamples == 3

\* what generate_matrix gives for each sample
Contributions(samples, k) ==
    [i \in DOMAIN samples |->
        generate_matrix(samples[i].gt_mask, samples[i].pred_mask, k)]

\* the loop of eval_mIOU over the samples with these contributions, from the
\* matrix m on: the matrix after the last sample, or the exception of the first
\* sample whose generate_matrix raises
RECURSIVE AccumulateFrom(_, _)
AccumulateFrom(m, contributions) ==
    IF contributions = <<>> THEN Ok(m)
    ELSE IF Head(contributions).ok
         THEN AccumulateFrom(MatAdd(m, Head(contributions).value), Tail(contributions))
         ELSE Head(contributions)

Accumulated(samples, k) == AccumulateFrom(ZeroMatrix(k), Contributions(samples, k))

\* the orders in which len samples can be taken
AllOrders ==
    [len \in 0 .. MaxOrderSamples |->
        {f \in [1 .. len -> 1 .. len] : \A i, j \in 1 .. len : f[i] = f[j] => i = j}]

Orders(len) == AllOrders[len]

\* the samples, or what belongs to each, taken in the order f
Permuted(samples, f) == [i \in DOMAIN samples |-> samples[f[i]]]

RECURSIVE Concat(_)
Concat(seqs) == IF seqs = <<>> THEN <<>> ELSE Head(seqs) \o Concat(Tail(seqs))

\* one mask that holds the pixels of all the masks, in their order
Joined(masks) ==
    LET data == Concat([i \in DOMAIN masks |-> masks[i].data])
    IN  Mask(<<1, Len(data)>>, data)

\* samples of one pixel whose values a run with k classes can meet
OnePixelSamples(k) ==
    {[gt_mask |-> Mask(<<1, 1>>, <<g>>), pred_mask |-> Mask(<<1, 1>>, <<p>>)] :
        g \in {v \in GtValues : v < k \/ v = IgnoreLabel}, p \in 0 .. k}

OrderInit ==
    /\ Idle
    /\ \E k \in 0 .. MaxClasses, len \in 0 .. MaxOrderSamples :
       \E samples \in [1 .. len -> OnePixelSamples(k)] :
          call = [op |-> "accumulate", samples |-> samples, num_classes |-> k]
    /\ result = NoResult

OrderCall ==
    /\ call.op = "accumulate"
    /\ result = NoResult
    /\ result' =
          [ok |-> TRUE,
           in_order |-> Accumulated(call.samples, call.num_classes),
           permuted |-> LET contributions == Contributions(call.samples, call.num_classes)
                        IN  {AccumulateFrom(ZeroMatrix(call.num_classes),
                                            Permuted(contributions, f)) :
                                f \in Orders(Len(call.samples))},
           at_once  |-> generate_matrix(
                            Joined([i \in DOMAIN call.samples |-> call.samples[i].gt_mask]),
                            Joined([i \in DOMAIN call.samples |-> call.samples[i].pred_mask]),
                            call.num_classes)]
    /\ UNCHANGED <<eval_vars, call>>

OrderNext == OrderCall

SpecOrder == OrderInit /\ [][OrderNext]_vars

\* C2: the samples of a dataset give one and the same final confusion matrix
\* in whatever order they are accumulated, and the same as one contribution
\* computed from the pixels of all of them.
C2_OrderIndependent ==
    (call.op = "accumulate" /\ result # NoResult) =>
        /\ result.permuted = {result.in_order}
        /\ result.at_once = result.in_order

\* three samples in three different cells, accumulated without an exception
C2_Witness ==
    /\ call.op = "accumulate"
    /\ result # NoResult
    /\ Len(call.samples) = 3
    /\ result.in_order.ok
    /\ Cardinality({call.samples[i] : i \in 1 .. 3}) = 3
    /\ \A i \in 1 .. 3 : Valid(call.samples[i].gt_mask, call.num_classes) # {}

----------------------------------------------------------------------------
(* main: the model file is loaded and its format is handed to eval_mIOU *)

\* str.endswith on strings kept as lists of characters
EndsWith(path, suffix) ==
    /\ Len(path) >= Len(suffix)
    /\ SubSeq(path, Len(path) - Len(suffix) + 1, Len(path)) = suffix

\* values of --model_path
ModelPaths ==
    {<<"m", ".", "t", "f", "l", "i", "t", "e">>,
     <<"m", ".", "p", "b">>,
     <<"m", ".", "h", "5">>,
     <<"m", ".", "o", "n", "n", "x">>,
     <<"m", ".", "m", "n", "n">>,
     <<"m", ".", "H", "5">>,
     <<"m", ".", "h", "5", "~">>,
     <<"h", "5">>}

\* load_eval_model that takes any other file as an MNN model
LoadEvalModelLenient(model_path) ==
    IF EndsWith(model_path, <<".", "t", "f", "l", "i", "t", "e">>) THEN Ok("TFLITE")
    ELSE IF EndsWith(model_path, <<".", "p", "b">>) THEN Ok("PB")
    ELSE IF EndsWith(model_path, <<".", "h", "5">>) THEN Ok("H5")
    ELSE Ok("MNN")

\* the model_format that load_eval_model returns next to the model
load_eval_model(model_path) ==
    IF EndsWith(model_path, <<".", "t", "f", "l", "i", "t", "e">>) THEN Ok("TFLITE")
    ELSE IF EndsWith(model_path, <<".", "p", "b">>) THEN Ok("PB")
    ELSE IF EndsWith(model_path, <<".", "h", "5">>) THEN Ok("H5")
    ELSE Raise("invalid model file")

\* main has parsed its arguments and read the class names; model_format is
\* not assigned yet
MainInit ==
    /\ pc = "main"
    /\ class_names \in ClassNameLists
    /\ model_format = ""
    /\ model_input_shape \in InputShapes
    /\ n = 0
    /\ confusion_matrix = <<>>
    /\ report = NoReport
    /\ error = ""
    /\ valid_seen = 0
    /\ all_match = TRUE
    /\ shape_mismatch = FALSE
    /\ \E model_path \in ModelPaths : call = [op |-> "main", model_path |-> model_path]
    /\ result = NoResult

\* model, model_format = load_eval_model(args.model_path), then the call of
\* eval_mIOU with that model_format
LoadEvalModel ==
    /\ pc = "main"
    /\ result' = load_eval_model(call.model_path)
    /\ IF result'.ok
       THEN /\ model_format' = result'.value
            /\ pc' = "call"
            /\ UNCHANGED error
       ELSE /\ pc' = "error"
            /\ error' = result'.error
            /\ UNCHANGED model_format
    /\ UNCHANGED <<class_names, model_input_shape, n, confusion_matrix, report,
                   valid_seen, all_match, shape_mismatch, call>>

MainNext == LoadEvalModel \/ Setup \/ Iterate \/ LoopEnd \/ Derive

SpecMain == MainInit /\ [][MainNext]_vars

----------------------------------------------------------------------------
(* Properties of the evaluation run *)

Finished == pc = "done"

\* class c occurs neither as ground truth nor as prediction
Absent(m, c) == RowSum(m, c) = 0 /\ ColSum(m, c) = 0

\* the arithmetic mean of a over all class indices
MeanOverClasses(a) ==
    LET total == SumSeq(AsList(a))
    IN  Rat(total.n, total.d * Cardinality(DOMAIN a))

InUnitInterval(x) == Leq(Zero, x) /\ Leq(x, One)

\* C1: whatever samples have been accumulated, the entries of the confusion
\* matrix add up to the number of accumulated pixels whose ground-truth label
\* lies in [0, num_classes); pixels with any other label are in no cell.
C1_SumIsValidPixels == pc # "call" => MatSum(confusion_matrix) = valid_seen

\* samples with ignored and with counted pixels were accumulated
C1_Witness ==
    /\ Finished
    /\ valid_seen > 0
    /\ valid_seen < n * Size(model_input_shape)

\* C3: every ratio of the derivation is 0 when its denominator is 0; with an
\* all-zero matrix PixelAcc is 0 and the returned mIoU is 0.
C3_ZeroDenominatorGivesZero ==
    (Finished /\ num_classes > 0) =>
        LET m == confusion_matrix
        IN  /\ MatSum(m) = 0 => report.PixelAcc = Zero /\ report.mIoU = Zero
            /\ \A c \in DOMAIN m :
                  /\ RowSum(m, c) = 0 => report.ClassAcc[c] = Zero
                  /\ U(m)[c] = 0 => report.IoU[c] = Zero
                  /\ MatSum(m) = 0 => report.Freq[c] = Zero
                  /\ U(m)[c] + I(m)[c] = 0 => report.DiceCoef[c] = Zero

\* C4: with masks of different shapes, or with no class names, the run fails
\* before anything is added to the matrix and before any metric is computed.
C4_InvalidInputFailsFast ==
    (num_classes <= 0 \/ shape_mismatch) =>
        /\ n = 0
        /\ pc \notin {"derive", "done"}
        /\ pc = "error" => error # ""

\* C5: with a model_format that is none of TFLITE, PB, ONNX, H5 the run raises at
\* once: no sample is accumulated and no metric is computed, whatever the dataset.
C5_InvalidFormatRaises ==
    (model_format \notin SupportedFormats /\ num_classes > 0) =>
        /\ n = 0
        /\ pc \notin {"derive", "done"}
        /\ report = NoReport

\* C6: for a matrix with at least one counted pixel, PixelAcc and every
\* class's IoU and Dice lie in [0, 1].
C6_MetricsInUnitInterval ==
    (Finished /\ MatSum(confusion_matrix) > 0) =>
        /\ InUnitInterval(report.PixelAcc)
        /\ \A c \in DOMAIN confusion_matrix :
              /\ InUnitInterval(report.IoU[c])
              /\ InUnitInterval(report.DiceCoef[c])

\* a class with an IoU strictly between 0 and 1
C6_Witness ==
    /\ Finished
    /\ MatSum(confusion_matrix) > 0
    /\ \E c \in DOMAIN confusion_matrix :
          /\ report.IoU[c] \notin {Zero, One}
          /\ report.DiceCoef[c] \notin {Zero, One}

\* C7: a class that is absent from ground truth and predictions has ClassAcc 0
\* and IoU 0, and mClassAcc and mIoU are the means over all num_classes classes,
\* that 0 included.
C7_AbsentClassCountsAsZero ==
    (Finished /\ \E c \in DOMAIN confusion_matrix : Absent(confusion_matrix, c)) =>
        /\ \A c \in DOMAIN confusion_matrix :
              Absent(confusion_matrix, c) =>
                  report.ClassAcc[c] = Zero /\ report.IoU[c] = Zero
        /\ report.mClassAcc = MeanOverClasses(report.ClassAcc)
        /\ report.mIoU = MeanOverClasses(report.IoU)

\* class c occurs as ground truth
Present(m, c) == RowSum(m, c) > 0

\* no name occurs twice
Distinct(names) == \A i, j \in DOMAIN names : names[i] = names[j] => i = j

\* C8 as stated (here for class names that are all different): when the
\* prediction equals the ground truth at every pixel of every sample and some
\* pixel is counted, PixelAcc = 1, IoU = Dice = 1 for the classes that occur in
\* the ground truth, and mIoU = 1.
C8_PerfectPredictionGivesOne ==
    (Finished /\ all_match /\ valid_seen > 0 /\ Distinct(class_names)) =>
        /\ report.PixelAcc = One
        /\ \A c \in DOMAIN confusion_matrix :
              Present(confusion_matrix, c) =>
                  report.IoU[c] = One /\ report.DiceCoef[c] = One
        /\ report.mIoU = One

\* C8, amended: as above, with mIoU = 1 when every class occurs in the ground truth.
C8_PerfectPrediction ==
    (Finished /\ all_match /\ valid_seen > 0) =>
        /\ report.PixelAcc = One
        /\ \A c \in DOMAIN confusion_matrix :
              Present(confusion_matrix, c) =>
                  report.IoU[c] = One /\ report.DiceCoef[c] = One
        /\ (\A c \in DOMAIN confusion_matrix : Present(confusion_matrix, c)) =>
              report.mIoU = One

\* a perfect prediction of a dataset in which two classes occur
C8_Witness ==
    /\ Finished
    /\ all_match
    /\ num_classes >= 2
    /\ \A c \in DOMAIN confusion_matrix : Present(confusion_matrix, c)

C13_mIoUIsMeanOverClasses ==
    (Finished /\ num_classes > 0) => report.mIoU = MeanOverClasses(report.IoU)

\* where a name stands first in the list of names
FirstIndex(names, name) ==
    CHOOSE i \in DOMAIN names :
        names[i] = name /\ \A j \in 1 .. (i - 1) : names[j] # name

\* C14: the report lists every class name once, with the IoU of a class of
\* that name, in non-increasing order of IoU; of two names with equal IoU the
\* one that stands first in class_names is listed first.
C14_ReportSortedStable ==
    Finished =>
        LET items == report.IOUs
        IN  /\ {items[a][1] : a \in DOMAIN items} = Range(class_names)
            /\ \A a \in DOMAIN items :
                  \E i \in DOMAIN class_names :
                      class_names[i] = items[a][1] /\ items[a][2] = report.IoU[i - 1]
            /\ \A a, b \in DOMAIN items :
                  a < b =>
                      /\ items[a][1] # items[b][1]
                      /\ Leq(items[b][2], items[a][2])
                      /\ items[a][2] = items[b][2] =>
                            FirstIndex(class_names, items[a][1])
                                < FirstIndex(class_names, items[b][1])

\* two classes with the same IoU, neither 0 nor 1, listed as in class_names
C14_Witness ==
    /\ Finished
    /\ num_classes = 2
    /\ Distinct(class_names)
    /\ report.IoU[0] = report.IoU[1]
    /\ report.IoU[0] \notin {Zero, One}
    /\ report.IOUs[1][1] = class_names[1]

\* cell by cell, a holds no more than b
MatLeq(a, b) == \A i \in DOMAIN a : \A j \in DOMAIN a[i] : a[i][j] <= b[i][j]

\* C15: the run starts from the all-zero matrix; each sample of the loop adds
\* one contribution (the counted pixels of that sample, nothing taken away);
\* the metrics are derived once, after the loop has ended, and the matrix is
\* added to neither during nor after the derivation.
C15_TwoPhase ==
    [][/\ pc = "call" =>
             pc' = "loop" /\ n' = 0 /\ confusion_matrix' = ZeroMatrix(num_classes)
       /\ (pc = "loop" /\ pc' = "loop") =>
             /\ n' = n + 1
             /\ MatLeq(confusion_matrix, confusion_matrix')
             /\ MatSum(confusion_matrix') - MatSum(confusion_matrix)
                    = valid_seen' - valid_seen
       /\ (pc = "loop" /\ pc' # "loop") =>
             /\ pc' \in {"derive", "error"}
             /\ n' = n
             /\ confusion_matrix' = confusion_matrix
       /\ pc \in {"derive", "done", "error"} =>
             /\ n' = n
             /\ confusion_matrix' = confusion_matrix
             /\ valid_seen' = valid_seen
       /\ report' # report => pc = "derive" /\ pc' = "done" /\ report = NoReport
       /\ pc' = "derive" => pc = "loop"
       /\ pc \in {"done", "error"} => pc' = pc]_vars

\* two samples were accumulated, the second on top of the first, and the
\* metrics were derived from the sum
C15_Witness ==
    /\ Finished
    /\ n >= 2
    /\ valid_seen >= 2
    /\ MatSum(confusion_matrix) = valid_seen
    /\ report # NoReport

\* the formats load_eval_model can return
LoadableFormats == {"TFLITE", "PB", "H5"}

\* the suffix of the path is one load_eval_model knows
KnownSuffix(path) ==
    \E suffix \in {<<".", "t", "f", "l", "i", "t", "e">>, <<".", "p", "b">>,
                   <<".", "h", "5">>} :
        Len(path) >= Len(suffix) /\ \A i \in 1 .. Len(suffix) :
            path[Len(path) - Len(suffix) + i] = suffix[i]

====
